---- MODULE Spec2Model ----
(***************************************************************************)
(* Rotation-and-tunnel-supervision engine of wireguard-socks5-proxy:       *)
(* proxy.ts (selection, rotation, scheduler), state.ts (state document)    *)
(* and tunnel.ts (tun2socks process supervision).                          *)
(***************************************************************************)
EXTENDS Integers, Sequences, FiniteSets, TLC

VARIABLES
    cachedState,    \* state.ts cachedState.clients: name -> ClientState | NoState
    disk,           \* the document last written to state.json
    now,            \* the clock read by new Date()
    procs,          \* every tun2socks child spawned so far, indexed by pid
    activeTunnels,  \* tunnel.ts activeTunnels: client name -> pid | NoPid
    loop,           \* the call chain that holds the JavaScript thread, or "idle"
    task,           \* the frame of each call chain: scheduler tick, manual request
    tick,           \* the scheduler tick's loop over config.clients
    resp,           \* the answer of the last manual (HTTP) rotate request
    net,            \* the host's network path of each client: client name -> record
    events,         \* number of outside events so far: ticks, requests, clock
                    \* advances, failed writes and setups, unprompted exits
    selIn,          \* input of selectFreshestProxy under SelSpec
    selOut,         \* its result under SelSpec
    derived         \* the identifiers setupClientTunnel derives for two clients
                    \* of one configuration, under DeriveSpec; the rotation
                    \* config and the check interval, under TickSpec

vars == << cachedState, disk, now, procs, activeTunnels, loop, task, tick, resp,
           net, events, selIn, selOut, derived >>

sysVars == << cachedState, disk, now, procs, activeTunnels, loop, task, tick,
              resp, net, events >>

selVars == << selIn, selOut, derived >>

-----------------------------------------------------------------------------
(* Bounds of the model *)

MaxEvents == 3
MaxPool == 3
MaxDate == 2

\* the rotations of one client followed when the order of its relays is studied
MaxLru == 5
MaxSetups == 2
MaxCrashes == 4
MaxRotations == 102
\* largest configuration-order index of a client
MaxIndex == 256
\* largest rotation.interval of a configuration
MaxInterval == 601

-----------------------------------------------------------------------------
(* Configuration and constants of the program *)

MAX_RESTART_ATTEMPTS == 3

HistoryCap == 100

\* getRotationIntervalMs(config.rotation), in clock units
IntervalMs == 1

\* '' : a string that is falsy in JavaScript (no location, no proxy, no date)
NoLoc == ""

NoUrl == ""

\* null returned by selectFreshestProxy
NoProxy == [url |-> NoUrl, location |-> NoLoc]

\* undefined returned by getClientState
NoState == [undefined |-> TRUE]

NoPid == 0

\* proxy_usage_dates[url] of a relay that has no entry (undefined)
NoDate == 0

\* new Date(0), the date given to a relay without a usage date
Epoch == 0

\* config.clients, in configuration order; a name is its sequence of characters
Clients == << <<"a">>, <<"a", "b">> >>

ClientNames == { Clients[i] : i \in 1..Len(Clients) }

\* a name that no client of the configuration has, without a .conf file
UnknownName == <<"z">>

\* a name that no client of the configuration has, for which
\* <dataDir>/clients/<name>.conf is a file: a client of an earlier configuration
\* (initializeClients removes no file), or a name such as ../wireguard/wg0
LeftoverName == <<"w">>

\* the names for which getClientConfig returns a configuration
ConfFiles == ClientNames \cup {LeftoverName}

AllNames == ClientNames \cup {UnknownName, LeftoverName}

\* config.proxies, in configuration order
Pool == << [url |-> "p1", location |-> "US"],
           [url |-> "p2", location |-> "US"],
           [url |-> "p3", location |-> "EU"] >>

Urls == {"p1", "p2", "p3"}

Locations == {"US", "EU"}

\* locations a caller may ask for: none (''), one of the pool, one not in the pool
AskedLocations == {NoLoc, "EU", "JP"}

-----------------------------------------------------------------------------
(* proxy.ts: selectFreshestProxy; Array.prototype.filter is SelectSeq *)

\* a plausible slip: an explicit location with no relay falls back to the pool
AvailableProxiesFallback(pool, lastLocation, preferredLocation) ==
    LET SameLocation(p) == p.location = preferredLocation
        OtherLocation(p) == p.location # lastLocation
        wanted == IF preferredLocation # NoLoc THEN SelectSeq(pool, SameLocation)
                  ELSE IF lastLocation # NoLoc THEN SelectSeq(pool, OtherLocation)
                  ELSE pool
    IN  IF Len(wanted) > 0 THEN wanted ELSE pool

\* a plausible slip: the last location is not looked at
AvailableProxiesNoAntiRepeat(pool, lastLocation, preferredLocation) ==
    IF preferredLocation # NoLoc
    THEN LET SameLocation(p) == p.location = preferredLocation
         IN  SelectSeq(pool, SameLocation)
    ELSE pool

\* the candidates left after the location filters
AvailableProxies(pool, lastLocation, preferredLocation) ==
    IF preferredLocation # NoLoc
    THEN LET SameLocation(p) == p.location = preferredLocation
         IN  SelectSeq(pool, SameLocation)
    ELSE IF lastLocation # NoLoc
         THEN LET OtherLocation(p) == p.location # lastLocation
                  differentLocationProxies == SelectSeq(pool, OtherLocation)
              IN  IF Len(differentLocationProxies) > 0
                  THEN differentLocationProxies
                  ELSE pool
         ELSE pool

\* new Date(usageDateStr), or new Date(0) for a relay without a usage date;
\* dates are milliseconds since the epoch, an absent entry reads as 0
UsageDate(usage, url) == IF usage[url] # NoDate THEN usage[url] ELSE Epoch

\* a plausible slip: <= lets a later relay of equal date replace an earlier one
OlderOrEqual(usageDate, oldestDate) == usageDate <= oldestDate

\* the comparison of the for loop: the candidate replaces the oldest so far
Older(usageDate, oldestDate) == usageDate < oldestDate

\* the for loop over availableProxies, from index i with the oldest so far
RECURSIVE FreshestFrom(_, _, _, _)
FreshestFrom(avail, usage, i, best) ==
    IF i > Len(avail) THEN best
    ELSE IF best = NoProxy
            \/ Older(UsageDate(usage, avail[i].url), UsageDate(usage, best.url))
         THEN FreshestFrom(avail, usage, i + 1, avail[i])
         ELSE FreshestFrom(avail, usage, i + 1, best)

selectFreshestProxy(pool, lastLocation, usage, preferredLocation) ==
    LET avail == AvailableProxies(pool, lastLocation, preferredLocation)
    IN  IF Len(avail) = 0 THEN NoProxy
        ELSE FreshestFrom(avail, usage, 1, NoProxy)

-----------------------------------------------------------------------------
(* state.ts: the state document *)

\* the strings that can key proxy_usage_dates: the URLs of the pool and the
\* URL of no relay
UsageKeys == Urls \cup {NoUrl}

\* the ClientState written by initializeClientState
EmptyClientState ==
    [current_proxy |-> NoUrl, current_location |-> NoLoc, last_location |-> NoLoc,
     last_rotation |-> NoDate, proxy_usage_dates |-> [u \in UsageKeys |-> NoDate],
     rotation_history |-> << >>]

\* getClientState(name) || initializeClientState(name): the document afterwards
initializeClientState(doc, name) ==
    IF doc[name] = NoState THEN [doc EXCEPT ![name] = EmptyClientState] ELSE doc

\* a plausible slip: slice(0, 100) keeps the oldest entries
CapHistoryKeepOldest(h) == IF Len(h) > HistoryCap THEN SubSeq(h, 1, HistoryCap) ELSE h

\* rotation_history.slice(-100) once the log is longer than 100
CapHistory(h) ==
    IF Len(h) > HistoryCap THEN SubSeq(h, Len(h) - HistoryCap + 1, Len(h)) ELSE h

\* a plausible variant: last_location takes the location that is left
updateClientProxyVacated(cs, proxyUrl, location, oldProxy, oldLocation, t) ==
    LET assigned == [cs EXCEPT !.current_proxy = proxyUrl,
                               !.current_location = location,
                               !.last_rotation = t]
        located == IF location # cs.current_location
                   THEN [assigned EXCEPT !.last_location = cs.current_location]
                   ELSE assigned
        dated == [located EXCEPT !.proxy_usage_dates[proxyUrl] = t]
        entry == [timestamp |-> t, old_proxy |-> oldProxy, new_proxy |-> proxyUrl,
                  old_location |-> oldLocation, new_location |-> location]
    IN  IF oldProxy # NoUrl /\ oldProxy # proxyUrl
        THEN [dated EXCEPT !.rotation_history = CapHistory(Append(@, entry))]
        ELSE dated

\* the mutation: the usage date goes to the relay that is left
updateClientProxyDatesOld(cs, proxyUrl, location, oldProxy, oldLocation, t) ==
    LET assigned == [cs EXCEPT !.current_proxy = proxyUrl,
                               !.current_location = location,
                               !.last_rotation = t]
        located == IF location # assigned.last_location
                   THEN [assigned EXCEPT !.last_location = assigned.current_location]
                   ELSE assigned
        dated == [located EXCEPT !.proxy_usage_dates[oldProxy] = t]
        entry == [timestamp |-> t, old_proxy |-> oldProxy, new_proxy |-> proxyUrl,
                  old_location |-> oldLocation, new_location |-> location]
    IN  IF oldProxy # NoUrl /\ oldProxy # proxyUrl
        THEN [dated EXCEPT !.rotation_history = CapHistory(Append(@, entry))]
        ELSE dated

\* the mutation: no usage date is recorded
updateClientProxyUndated(cs, proxyUrl, location, oldProxy, oldLocation, t) ==
    LET assigned == [cs EXCEPT !.current_proxy = proxyUrl,
                               !.current_location = location,
                               !.last_rotation = t]
        located == IF location # assigned.last_location
                   THEN [assigned EXCEPT !.last_location = assigned.current_location]
                   ELSE assigned
        entry == [timestamp |-> t, old_proxy |-> oldProxy, new_proxy |-> proxyUrl,
                  old_location |-> oldLocation, new_location |-> location]
    IN  IF oldProxy # NoUrl /\ oldProxy # proxyUrl
        THEN [located EXCEPT !.rotation_history = CapHistory(Append(@, entry))]
        ELSE located

\* the mutation updateClientProxy applies to one ClientState at time t
updateClientProxy(cs, proxyUrl, location, oldProxy, oldLocation, t) ==
    LET assigned == [cs EXCEPT !.current_proxy = proxyUrl,
                               !.current_location = location,
                               !.last_rotation = t]
        located == IF location # assigned.last_location
                   THEN [assigned EXCEPT !.last_location = assigned.current_location]
                   ELSE assigned
        dated == [located EXCEPT !.proxy_usage_dates[proxyUrl] = t]
        entry == [timestamp |-> t, old_proxy |-> oldProxy, new_proxy |-> proxyUrl,
                  old_location |-> oldLocation, new_location |-> location]
    IN  IF oldProxy # NoUrl /\ oldProxy # proxyUrl
        THEN [dated EXCEPT !.rotation_history = CapHistory(Append(@, entry))]
        ELSE dated

\* the mutation: the write is skipped
saveStateSkipped(doc, old, ok) == old

\* what writeFileSync leaves on disk: the whole document, or the old file
saveState(doc, old, ok) == IF ok THEN doc ELSE old

\* getCurrentProxy
getCurrentProxy(doc, name) ==
    IF doc[name] = NoState THEN NoProxy
    ELSE IF doc[name].current_proxy = NoUrl THEN NoProxy
    ELSE [url |-> doc[name].current_proxy, location |-> doc[name].current_location]

-----------------------------------------------------------------------------
(* tunnel.ts: the registry of tun2socks children *)

Pids == 1..Len(procs)

\* a child that exited and has no timer left: nothing reads its fields again
Gone(p) == [client |-> p.client, proxyUrl |-> NoUrl, restartAttempts |-> 0,
            status |-> "exited", restartTimer |-> FALSE, restarts |-> 0,
            killed |-> FALSE, graceTimer |-> FALSE]

IsPrefix(a, b) == Len(a) <= Len(b) /\ SubSeq(b, 1, Len(a)) = a

\* pkill -f "tun2socks.*tun-<name>" against the command line
\* "tun2socks -device tun-<client> -proxy <url> -loglevel info"
PkillMatches(name, client) == IsPrefix(name, client)

\* SIGTERM from process.kill or pkill reaches a child: a running child is
\* asked to terminate, and exits when, and if, it handles the signal
Signalled(p) == IF p.status = "running" THEN [p EXCEPT !.status = "terminating"] ELSE p

\* the test of the 2 s timer of stopClientTunnel: !tunnel.process.killed
StillRunning(p) == ~p.killed

\* tunnel.process.kill('SIGTERM') on the registered child, whose 'exit' has
\* not been handled: the signal is sent, kill returns true and the runtime
\* sets process.killed; the 2 s timer is set
Terminated(p) == [Signalled(p) EXCEPT !.killed = TRUE, !.graceTimer = TRUE]

\* stopClientTunnel: the children afterwards
stopClientTunnelProcs(ps, at, name) ==
    [i \in 1..Len(ps) |->
        LET cleared == IF at[name] = i
                       THEN Terminated([ps[i] EXCEPT !.restartTimer = FALSE])
                       ELSE ps[i]
        IN  IF PkillMatches(name, cleared.client) THEN Signalled(cleared) ELSE cleared]

\* stopClientTunnel: the registry afterwards
stopClientTunnelMap(at, name) == [at EXCEPT ![name] = NoPid]

\* a plausible slip: the counter is carried into every start, explicit or not
NextRestartAttemptsCarried(ps, at, name, isRestart) ==
    (IF at[name] # NoPid THEN ps[at[name]].restartAttempts ELSE 0) + 1

\* restartAttempts of the child startTun2SocksProcess creates
NextRestartAttempts(ps, at, name, isRestart) ==
    IF isRestart
    THEN (IF at[name] # NoPid THEN ps[at[name]].restartAttempts ELSE 0) + 1
    ELSE 0

\* startTun2SocksProcess: the children afterwards; generation counts the
\* restarts made since the last explicit start
startTun2SocksProcessProcs(ps, at, name, proxyUrl, isRestart, generation) ==
    Append(ps, [client |-> name, proxyUrl |-> proxyUrl,
                restartAttempts |-> NextRestartAttempts(ps, at, name, isRestart),
                status |-> "running", restartTimer |-> FALSE,
                restarts |-> generation, killed |-> FALSE, graceTimer |-> FALSE])

\* startTun2SocksProcess: the registry afterwards (the new child has the next pid)
startTun2SocksProcessMap(ps, at, name) == [at EXCEPT ![name] = Len(ps) + 1]

\* handleTunnelFailure: whether a restart timer is set
SchedulesRestart(p) == ~(p.restartAttempts >= MAX_RESTART_ATTEMPTS)

-----------------------------------------------------------------------------
(* tunnel.ts: the identifiers of a client's path, derived from its name and
   its index in config.clients; addresses are sequences of octets *)

TUN_POOL_BASE == << 10, 210 >>

ROUTE_TABLE_BASE == 100

PRIO_BASE == 200

\* `10.210.${Math.floor(clientIndex / 256)}.${clientIndex % 256}/24`
getTunSubnet(clientIndex) ==
    [ip |-> TUN_POOL_BASE \o << clientIndex \div 256, clientIndex % 256 >>,
     prefix |-> 24]

getRouteTable(clientIndex) == ROUTE_TABLE_BASE + clientIndex

\* `tun-${clientName}`
TunInterface(clientName) == << "t", "u", "n", "-" >> \o clientName

\* tunIP and peerGW: the first three octets of the subnet string, then 2 and 1
TunIP(tunSubnet) == SubSeq(tunSubnet.ip, 1, 3) \o << 2 >>

PeerGW(tunSubnet) == SubSeq(tunSubnet.ip, 1, 3) \o << 1 >>

\* the network an address with a /24 prefix lies in
Network24(ip) == SubSeq(ip, 1, 3) \o << 0 >>

\* 200 + (clientIndex % 100)
RulePriority(clientIndex) == PRIO_BASE + (clientIndex % 100)

\* what setupClientTunnel derives for the client clientName at clientIndex
PathIds(clientName, clientIndex) ==
    [tunInterface |-> TunInterface(clientName),
     tunSubnet |-> getTunSubnet(clientIndex),
     tunIP |-> TunIP(getTunSubnet(clientIndex)),
     peerGW |-> PeerGW(getTunSubnet(clientIndex)),
     routeTable |-> getRouteTable(clientIndex),
     prio |-> RulePriority(clientIndex)]

NoDerived == [done |-> FALSE, names |-> << >>, indexes |-> << >>, ids |-> << >>]

-----------------------------------------------------------------------------
(* tunnel.ts: setupClientTunnel, the network path of one client on the host *)

\* a host on which nothing has been set up for the client; ready tells whether
\* the last call of setupClientTunnel returned, and setups counts the calls
\* that returned when the setup is studied alone (NetSpec)
\* cleaned records what cleanupAllTunnels did for the client: the steps it
\* attempted and those whose command failed although its target existed
CleanPath ==
    [tun |-> FALSE, addr |-> 0, up |-> FALSE, route |-> FALSE, rule |-> 0,
     fwdIn |-> 0, fwdOut |-> 0, nat |-> 0, setups |-> 0, ready |-> FALSE,
     cleaned |-> [attempted |-> {}, failed |-> {}]]

\* the commands of setupClientTunnel whose failure it rethrows, in order:
\* 1 ip tuntap add, 2 ip addr add, 3 ip link set up, 4 ip route replace,
\* 5 ip rule add, 6 and 7 iptables -I FORWARD, 8 iptables -t nat -I POSTROUTING
SetupCommands == 8

\* a variant that never removes the rules of an earlier setup
DeleteForwardingSkipped(n) == n

\* the three iptables -D in one try block: the first that fails (no such rule)
\* skips the ones after it
DeleteForwarding(n) ==
    IF n.fwdIn = 0 THEN n
    ELSE IF n.fwdOut = 0 THEN [n EXCEPT !.fwdIn = @ - 1]
    ELSE IF n.nat = 0 THEN [n EXCEPT !.fwdIn = @ - 1, !.fwdOut = @ - 1]
    ELSE [n EXCEPT !.fwdIn = @ - 1, !.fwdOut = @ - 1, !.nat = @ - 1]

\* ip rule del, whose failure (no such rule) is ignored
DeleteRule(n) == IF n.rule = 0 THEN n ELSE [n EXCEPT !.rule = @ - 1]

\* setupClientTunnel on path n when the commands 1..upTo succeed and the next
\* one, if any, fails: the path it leaves
setupClientTunnel(n, upTo) ==
    LET s0 == [n EXCEPT !.ready = FALSE]
        s1 == IF n.tun THEN [s0 EXCEPT !.addr = 0]
              ELSE IF 1 <= upTo THEN [s0 EXCEPT !.tun = TRUE] ELSE s0
        s2 == IF 2 <= upTo THEN [s1 EXCEPT !.addr = @ + 1] ELSE s1
        s3 == IF 3 <= upTo THEN [s2 EXCEPT !.up = TRUE] ELSE s2
        s4 == IF 4 <= upTo THEN DeleteRule([s3 EXCEPT !.route = TRUE]) ELSE s3
        s5 == IF 5 <= upTo THEN DeleteForwarding([s4 EXCEPT !.rule = @ + 1]) ELSE s4
        s6 == IF 6 <= upTo THEN [s5 EXCEPT !.fwdIn = @ + 1] ELSE s5
        s7 == IF 7 <= upTo THEN [s6 EXCEPT !.fwdOut = @ + 1] ELSE s6
    IN  IF 8 <= upTo
        THEN [s7 EXCEPT !.nat = @ + 1, !.ready = TRUE]
        ELSE s7

\* the cleanup commands of cleanupAllTunnels for one client, in order:
\* ip rule del, the three iptables -D, ip link delete
CleanupCommands == << "rule", "fwdIn", "fwdOut", "nat", "link" >>

\* the try block the k-th cleanup command is in: the three iptables -D share
\* one; every catch is empty
TryBlock(k) == IF k = 1 THEN 1 ELSE IF k <= 4 THEN 2 ELSE 3

\* the target of a cleanup command exists in path n
Present(n, cmd) ==
    IF cmd = "rule" THEN n.rule > 0
    ELSE IF cmd = "fwdIn" THEN n.fwdIn > 0
    ELSE IF cmd = "fwdOut" THEN n.fwdOut > 0
    ELSE IF cmd = "nat" THEN n.nat > 0
    ELSE n.tun

\* what a cleanup command that succeeds does to path n
Remove(n, cmd) ==
    IF cmd = "rule" THEN [n EXCEPT !.rule = @ - 1]
    ELSE IF cmd = "fwdIn" THEN [n EXCEPT !.fwdIn = @ - 1]
    ELSE IF cmd = "fwdOut" THEN [n EXCEPT !.fwdOut = @ - 1]
    ELSE IF cmd = "nat" THEN [n EXCEPT !.nat = @ - 1]
    ELSE [n EXCEPT !.tun = FALSE, !.addr = 0, !.up = FALSE, !.route = FALSE,
                   !.ready = FALSE]

\* the cleanup commands k.. of one client; a command fails when its target
\* does not exist or when it is in failing, and a failure skips the commands
\* left in its try block
RECURSIVE cleanupClient(_, _, _)
cleanupClient(n, k, failing) ==
    IF k > Len(CleanupCommands) THEN n
    ELSE LET cmd == CleanupCommands[k]
             tried == [n EXCEPT !.cleaned.attempted = @ \cup {cmd}]
             after == CHOOSE j \in (k + 1)..(Len(CleanupCommands) + 1) :
                        /\ j <= Len(CleanupCommands) => TryBlock(j) # TryBlock(k)
                        /\ \A i \in (k + 1)..(j - 1) : TryBlock(i) = TryBlock(k)
         IN  IF cmd \in failing
             THEN cleanupClient([tried EXCEPT !.cleaned.failed = @ \cup {cmd}],
                                after, failing)
             ELSE IF ~Present(n, cmd) THEN cleanupClient(tried, after, failing)
             ELSE cleanupClient(Remove(tried, cmd), k + 1, failing)

\* getClientIP finds the client's WireGuard address in its .conf file
HasClientIP(name) == name \in ConfFiles

\* the second loop of cleanupAllTunnels, over config.clients from index i; the
\* commands in failing fail for client failingName
RECURSIVE cleanupPaths(_, _, _, _)
cleanupPaths(paths, i, failingName, failing) ==
    IF i > Len(Clients) THEN paths
    ELSE LET name == Clients[i]
             cleaned == IF HasClientIP(name)
                        THEN cleanupClient(paths[name], 1,
                                 IF name = failingName THEN failing ELSE {})
                        ELSE paths[name]
         IN  cleanupPaths([paths EXCEPT ![name] = cleaned], i + 1,
                          failingName, failing)

\* config.clients.findIndex finds the name; otherwise setupClientTunnel throws
\* before its first command
Configured(name) == name \in ClientNames

\* no command of setupClientTunnel fails
SetupReturns(upTo) == upTo >= SetupCommands

\* how far a setup may get: to the end, or to the command that fails
SetupOutcomes == IF events < MaxEvents THEN 0..SetupCommands ELSE {SetupCommands}

-----------------------------------------------------------------------------
(* Call chains.  JavaScript runs one callback at a time: a chain keeps the
   thread across an await whose promise is already settled (writeFileSync,
   execSync and spawn are synchronous) and gives it up only where it awaits
   real I/O; timers, child-process events and new requests are taken by the
   event loop only while no chain holds the thread. *)

Tasks == {"sched", "man"}

NoDoc == [n \in AllNames |-> NoState]

IdleFrame ==
    [pc |-> "idle", kind |-> "none", client |-> UnknownName,
     preferredLocation |-> NoLoc, isAutomatic |-> FALSE, oldProxy |-> NoUrl,
     oldLocation |-> NoLoc, selectedProxy |-> NoProxy, before |-> NoDoc]

\* no request answered yet; selected and changed record, for the answered call,
\* whether its selection returned a relay and whether the document differs
\* from the one the call found
NoResponse == [kind |-> "none", client |-> UnknownName, preferredLocation |-> NoLoc,
               proxy |-> NoProxy, selected |-> FALSE, changed |-> FALSE]

\* a mutant: saveState writes the file asynchronously, so the chain awaits I/O
\* between the commit and the tunnel swap
AwaitsIOAsyncSave(pc) == pc \in {"notify", "swap"}

\* the awaits of rotateProxyForClient that wait for I/O: only the notifier's
\* network call (await notifyAutomaticRotation)
AwaitsIO(pc) == pc = "notify"

\* the holder of the thread once chain t has reached the await before pc
LoopAfter(t, pc) == IF AwaitsIO(pc) THEN "idle" ELSE t

\* the program once main has started the scheduler: the documents and the
\* registry are empty and the initial check of startRotationScheduler holds the
\* thread, before the HTTP server takes any request
SysInit ==
    /\ cachedState = NoDoc
    /\ disk = NoDoc
    /\ now = 1
    /\ procs = << >>
    /\ activeTunnels = [n \in AllNames |-> NoPid]
    /\ loop = "sched"
    /\ task = [t \in Tasks |->
                  IF t = "sched" THEN [IdleFrame EXCEPT !.pc = "eval"] ELSE IdleFrame]
    /\ tick = [i |-> 1, seen |-> {}, end |-> "running"]
    /\ resp = NoResponse
    /\ net = [n \in AllNames |-> CleanPath]
    /\ events = 0

Init ==
    /\ SysInit
    /\ selIn = [pool |-> Pool, lastLocation |-> NoLoc,
                usage |-> [u \in Urls |-> NoDate], preferredLocation |-> NoLoc]
    /\ selOut = [done |-> TRUE, proxy |-> NoProxy]
    /\ derived = NoDerived

-----------------------------------------------------------------------------
(* proxy.ts: the scheduler tick, checkAndRotateProxies *)

\* the setInterval callback starts the loop over the clients
TickStart ==
    /\ loop = "idle"
    /\ task["sched"].pc = "idle"
    /\ events < MaxEvents
    /\ events' = events + 1
    /\ tick' = [i |-> 1, seen |-> {}, end |-> "running"]
    /\ task' = [task EXCEPT !["sched"] = [IdleFrame EXCEPT !.pc = "eval"]]
    /\ loop' = "sched"
    /\ UNCHANGED << cachedState, disk, now, procs, activeTunnels, resp,
                    net,
                    selVars >>

AtClient == loop = "sched" /\ task["sched"].pc = "eval" /\ tick.i <= Len(Clients)

Unassigned(name) ==
    IF cachedState[name] = NoState THEN TRUE
    ELSE cachedState[name].current_proxy = NoUrl

Due(name) == now - cachedState[name].last_rotation >= IntervalMs

\* no proxy assigned yet: await assignProxyToClient(client.name, config)
SchedAssign ==
    /\ AtClient
    /\ Unassigned(Clients[tick.i])
    /\ tick' = [tick EXCEPT !.seen = @ \cup {Clients[tick.i]}]
    /\ task' = [task EXCEPT !["sched"] =
                   [IdleFrame EXCEPT !.pc = "select", !.kind = "assign",
                                     !.client = Clients[tick.i]]]
    /\ UNCHANGED << cachedState, disk, now, procs, activeTunnels, loop, resp,
                    events, net,
                    selVars >>

\* interval reached: await rotateProxyForClient(client.name, undefined, true)
SchedRotate ==
    /\ AtClient
    /\ ~Unassigned(Clients[tick.i])
    /\ Due(Clients[tick.i])
    /\ tick' = [tick EXCEPT !.seen = @ \cup {Clients[tick.i]}]
    /\ task' = [task EXCEPT !["sched"] =
                   [IdleFrame EXCEPT !.pc = "read", !.kind = "rotate",
                                     !.client = Clients[tick.i],
                                     !.isAutomatic = TRUE]]
    /\ UNCHANGED << cachedState, disk, now, procs, activeTunnels, loop, resp,
                    events, net,
                    selVars >>

\* interval not reached: next client
SchedSkip ==
    /\ AtClient
    /\ ~Unassigned(Clients[tick.i])
    /\ ~Due(Clients[tick.i])
    /\ tick' = [tick EXCEPT !.seen = @ \cup {Clients[tick.i]}, !.i = @ + 1]
    /\ UNCHANGED << cachedState, disk, now, procs, activeTunnels, loop, task,
                    resp, events, net,
                    selVars >>

\* the call for one client returned: next client
SchedReturn ==
    /\ loop = "sched"
    /\ task["sched"].pc = "ret"
    /\ tick' = [tick EXCEPT !.i = @ + 1]
    /\ task' = [task EXCEPT !["sched"] = [IdleFrame EXCEPT !.pc = "eval"]]
    /\ UNCHANGED << cachedState, disk, now, procs, activeTunnels, loop, resp,
                    events, net,
                    selVars >>

\* the call for one client threw: nothing in the loop catches it, the promise
\* of checkAndRotateProxies rejects
SchedThrew ==
    /\ loop = "sched"
    /\ task["sched"].pc = "threw"
    /\ tick' = [tick EXCEPT !.end = "error"]
    /\ task' = [task EXCEPT !["sched"] = IdleFrame]
    /\ loop' = "idle"
    /\ UNCHANGED << cachedState, disk, now, procs, activeTunnels, resp,
                    events, net,
                    selVars >>

\* the for loop is over
SchedFinish ==
    /\ loop = "sched"
    /\ task["sched"].pc = "eval"
    /\ tick.i > Len(Clients)
    /\ tick' = [tick EXCEPT !.end = "ok"]
    /\ task' = [task EXCEPT !["sched"] = IdleFrame]
    /\ loop' = "idle"
    /\ UNCHANGED << cachedState, disk, now, procs, activeTunnels, resp,
                    events, net,
                    selVars >>

-----------------------------------------------------------------------------
(* http.ts: POST /client/:name/rotate *)

\* getClientConfig(name) is null: 404
ManualNotFound(name, location) ==
    /\ loop = "idle"
    /\ task["man"].pc = "idle"
    /\ events < MaxEvents
    /\ name \notin ConfFiles
    /\ events' = events + 1
    /\ resp' = [NoResponse EXCEPT !.kind = "notfound", !.client = name,
                                   !.preferredLocation = location]
    /\ UNCHANGED << cachedState, disk, now, procs, activeTunnels, loop, task,
                    tick, net,
                    selVars >>

\* await rotateProxyForClient(name, location)
ManualStart(name, location) ==
    /\ loop = "idle"
    /\ task["man"].pc = "idle"
    /\ events < MaxEvents
    /\ name \in ConfFiles
    /\ events' = events + 1
    /\ task' = [task EXCEPT !["man"] =
                   [IdleFrame EXCEPT !.pc = "read", !.kind = "rotate",
                                     !.client = name,
                                     !.preferredLocation = location,
                                     !.before = cachedState]]
    /\ loop' = "man"
    /\ UNCHANGED << cachedState, disk, now, procs, activeTunnels, tick, resp,
                    net,
                    selVars >>

\* the answer after rotateProxyForClient returned: success with getCurrentProxy
ManualRespond ==
    /\ loop = "man"
    /\ task["man"].pc = "ret"
    /\ resp' = [kind |-> "success", client |-> task["man"].client,
                preferredLocation |-> task["man"].preferredLocation,
                proxy |-> getCurrentProxy(cachedState, task["man"].client),
                selected |-> task["man"].selectedProxy # NoProxy,
                changed |-> cachedState # task["man"].before]
    /\ task' = [task EXCEPT !["man"] = IdleFrame]
    /\ loop' = "idle"
    /\ UNCHANGED << cachedState, disk, now, procs, activeTunnels, tick,
                    events, net,
                    selVars >>

\* the answer after rotateProxyForClient threw: 500
ManualError ==
    /\ loop = "man"
    /\ task["man"].pc = "threw"
    /\ resp' = [kind |-> "error", client |-> task["man"].client,
                preferredLocation |-> task["man"].preferredLocation,
                proxy |-> NoProxy,
                selected |-> task["man"].selectedProxy # NoProxy,
                changed |-> cachedState # task["man"].before]
    /\ task' = [task EXCEPT !["man"] = IdleFrame]
    /\ loop' = "idle"
    /\ UNCHANGED << cachedState, disk, now, procs, activeTunnels, tick,
                    events, net,
                    selVars >>

-----------------------------------------------------------------------------
(* proxy.ts: rotateProxyForClient and assignProxyToClient, await by await *)

Running(t, pc) == loop = t /\ task[t].pc = pc

\* the outcomes of a file write or of a path setup: success, or failure
Outcomes == IF events < MaxEvents THEN BOOLEAN ELSE {TRUE}

Count(ok) == IF ok THEN 0 ELSE 1

\* the outcomes of the saveState() call initializeClientState does not await:
\* it runs only when the ClientState is created, and its failure is dropped
InitWrites(doc, name) == IF doc[name] = NoState THEN Outcomes ELSE {TRUE}

\* rotateProxyForClient: read the current proxy and location
Read(t) ==
    /\ Running(t, "read")
    /\ \E ok \in InitWrites(cachedState, task[t].client) :
         LET doc == initializeClientState(cachedState, task[t].client)
         IN  /\ cachedState' = doc
             /\ disk' = IF doc # cachedState THEN saveState(doc, disk, ok) ELSE disk
             /\ events' = events + Count(ok)
             /\ task' = [task EXCEPT
                           ![t].oldProxy = doc[task[t].client].current_proxy,
                           ![t].oldLocation = doc[task[t].client].current_location,
                           ![t].pc = "select"]
    /\ UNCHANGED << now, procs, activeTunnels, loop, tick, resp, net,
                    selVars >>

\* await selectFreshestProxy(clientName, preferredLocation, config); on null
\* the caller logs a warning and returns
Select(t) ==
    /\ Running(t, "select")
    /\ \E ok \in InitWrites(cachedState, task[t].client) :
         LET doc == initializeClientState(cachedState, task[t].client)
             cs == doc[task[t].client]
             selectedProxy ==
                 selectFreshestProxy(Pool, cs.last_location, cs.proxy_usage_dates,
                                     task[t].preferredLocation)
         IN  /\ cachedState' = doc
             /\ disk' = IF doc # cachedState THEN saveState(doc, disk, ok) ELSE disk
             /\ events' = events + Count(ok)
             /\ task' = [task EXCEPT
                           ![t].selectedProxy = selectedProxy,
                           ![t].pc = IF selectedProxy = NoProxy THEN "ret"
                                     ELSE "commit"]
    /\ UNCHANGED << now, procs, activeTunnels, loop, tick, resp, net,
                    selVars >>

\* await updateClientProxy(...): mutate the ClientState, then await saveState(),
\* which rethrows a failed write
Commit(t) ==
    /\ Running(t, "commit")
    /\ \E ok \in Outcomes :
         LET name == task[t].client
             doc == initializeClientState(cachedState, name)
             updated == [doc EXCEPT ![name] =
                            updateClientProxy(doc[name], task[t].selectedProxy.url,
                                              task[t].selectedProxy.location,
                                              task[t].oldProxy, task[t].oldLocation,
                                              now)]
             pc == IF ok THEN "swap" ELSE "threw"
         IN  /\ cachedState' = updated
             /\ disk' = saveState(updated, disk, ok)
             /\ events' = events + Count(ok)
             /\ task' = [task EXCEPT ![t].pc = pc]
             /\ loop' = LoopAfter(t, pc)
    /\ UNCHANGED << now, procs, activeTunnels, tick, resp, net,
                    selVars >>

\* restartClientTunnel (a proxy was assigned before) or startTun2Socks:
\* stopClientTunnel, setupClientTunnel (which throws when a command fails or
\* the name is not in config.clients), startTun2SocksProcess
Swap(t) ==
    /\ Running(t, "swap")
    /\ \E upTo \in IF Configured(task[t].client) THEN SetupOutcomes
                    ELSE {SetupCommands} :
         LET name == task[t].client
             setupOk == Configured(name) /\ SetupReturns(upTo)
             once == stopClientTunnelProcs(procs, activeTunnels, name)
             map == stopClientTunnelMap(activeTunnels, name)
             stopped == IF task[t].kind = "rotate" /\ task[t].oldProxy # NoUrl
                        THEN stopClientTunnelProcs(once, map, name)
                        ELSE once
             pc == IF ~setupOk THEN "threw"
                   ELSE IF task[t].isAutomatic /\ task[t].oldProxy # NoUrl
                        THEN "notify"
                        ELSE "ret"
         IN  /\ procs' = IF setupOk
                         THEN startTun2SocksProcessProcs(stopped, map, name,
                                  task[t].selectedProxy.url, FALSE, 0)
                         ELSE stopped
             /\ activeTunnels' = IF setupOk
                                 THEN startTun2SocksProcessMap(stopped, map, name)
                                 ELSE map
             /\ net' = IF Configured(name)
                       THEN [net EXCEPT ![name] = setupClientTunnel(@, upTo)]
                       ELSE net
             /\ events' = events + Count(SetupReturns(upTo))
             /\ task' = [task EXCEPT ![t].pc = pc]
             /\ loop' = LoopAfter(t, pc)
    /\ UNCHANGED << cachedState, disk, now, tick, resp, selVars >>

\* the I/O a chain awaited has completed: the chain takes the thread again
Resume(t) ==
    /\ loop = "idle"
    /\ task[t].pc # "idle"
    /\ loop' = t
    /\ task' = [task EXCEPT ![t].pc = IF @ = "notify" THEN "ret" ELSE @]
    /\ UNCHANGED << cachedState, disk, now, procs, activeTunnels, tick, resp,
                    events, net,
                    selVars >>

-----------------------------------------------------------------------------
(* tunnel.ts: child-process events and the restart timer *)

\* a plausible slip: the failure handler empties the whole registry
handleTunnelFailureClearsRegistry(p) ==
    /\ activeTunnels' = [n \in AllNames |-> NoPid]
    /\ procs' = [procs EXCEPT ![p] =
                    IF SchedulesRestart(@)
                    THEN [@ EXCEPT !.status = "exited", !.restartTimer = TRUE]
                    ELSE Gone(@)]
    /\ UNCHANGED << cachedState, disk, now, loop, task, tick, resp, net, selVars >>

\* handleTunnelFailure for child p: the registry entry of its client is
\* deleted and, below the restart limit, the restart timer is set
handleTunnelFailure(p) ==
    /\ activeTunnels' = [activeTunnels EXCEPT ![procs[p].client] = NoPid]
    /\ procs' = [procs EXCEPT ![p] =
                    IF SchedulesRestart(@)
                    THEN [@ EXCEPT !.status = "exited", !.restartTimer = TRUE]
                    ELSE Gone(@)]
    /\ UNCHANGED << cachedState, disk, now, loop, task, tick, resp, net, selVars >>

\* 'exit' with a non-zero code and no SIGTERM/SIGKILL: handleTunnelFailure
ProcCrash(p) ==
    /\ loop = "idle"
    /\ procs[p].status = "running"
    /\ events < MaxEvents
    /\ events' = events + 1
    /\ handleTunnelFailure(p)

\* the 2 s timer set by stopClientTunnel fires: SIGKILL unless process.killed;
\* a child that has exited by then is not affected either way
GraceTimerFire(p) ==
    /\ loop = "idle"
    /\ procs[p].graceTimer
    /\ procs' = [procs EXCEPT ![p] =
                    [@ EXCEPT !.graceTimer = FALSE,
                              !.status = IF StillRunning(procs[p]) THEN "killing"
                                         ELSE @]]
    /\ UNCHANGED << cachedState, disk, now, activeTunnels, loop, task, tick, resp,
                    events, net, selVars >>

\* 'exit' of a child that was sent SIGTERM or SIGKILL:
\* activeTunnels.delete(clientName)
ProcExitSignal(p) ==
    /\ loop = "idle"
    /\ procs[p].status \in {"terminating", "killing"}
    /\ activeTunnels' = [activeTunnels EXCEPT ![procs[p].client] = NoPid]
    /\ procs' = [procs EXCEPT ![p] = Gone(@)]
    /\ UNCHANGED << cachedState, disk, now, loop, task, tick, resp, events,
                    net,
                    selVars >>

\* 'exit' of a child nobody stopped, with code 0 or by a SIGTERM or SIGKILL sent
\* from outside the program: activeTunnels.delete(clientName)
ProcExitZero(p) ==
    /\ loop = "idle"
    /\ procs[p].status = "running"
    /\ events < MaxEvents
    /\ events' = events + 1
    /\ activeTunnels' = [activeTunnels EXCEPT ![procs[p].client] = NoPid]
    /\ procs' = [procs EXCEPT ![p] = Gone(@)]
    /\ UNCHANGED << cachedState, disk, now, loop, task, tick, resp,
                    net,
                    selVars >>

\* the timer set by handleTunnelFailure fires:
\* startTun2SocksProcess(clientName, tunnelInfo.proxyUrl, config, true)
RestartTimerFire(p) ==
    /\ loop = "idle"
    /\ procs[p].restartTimer
    /\ LET old == [procs EXCEPT ![p] = Gone(@)]
       IN  /\ procs' = startTun2SocksProcessProcs(old, activeTunnels,
                           procs[p].client, procs[p].proxyUrl, TRUE,
                           procs[p].restarts + 1)
           /\ activeTunnels' = startTun2SocksProcessMap(old, activeTunnels,
                                                        procs[p].client)
    /\ UNCHANGED << cachedState, disk, now, loop, task, tick, resp, events,
                    net,
                    selVars >>

\* time passes
AdvanceClock ==
    /\ loop = "idle"
    /\ events < MaxEvents
    /\ events' = events + 1
    /\ now' = now + 1
    /\ UNCHANGED << cachedState, disk, procs, activeTunnels, loop, task,
                    tick, resp, net,
                    selVars >>

-----------------------------------------------------------------------------
Next ==
    \/ TickStart
    \/ SchedAssign
    \/ SchedRotate
    \/ SchedSkip
    \/ SchedReturn
    \/ SchedThrew
    \/ SchedFinish
    \/ \E name \in AllNames, location \in AskedLocations :
          ManualNotFound(name, location)
    \/ \E name \in AllNames, location \in AskedLocations :
          ManualStart(name, location)
    \/ ManualRespond
    \/ ManualError
    \/ \E t \in Tasks : Read(t)
    \/ \E t \in Tasks : Select(t)
    \/ \E t \in Tasks : Commit(t)
    \/ \E t \in Tasks : Swap(t)
    \/ \E t \in Tasks : Resume(t)
    \/ \E p \in Pids : ProcCrash(p)
    \/ \E p \in Pids : GraceTimerFire(p)
    \/ \E p \in Pids : ProcExitSignal(p)
    \/ \E p \in Pids : ProcExitZero(p)
    \/ \E p \in Pids : RestartTimerFire(p)
    \/ AdvanceClock

Spec == Init /\ [][Next]_vars

-----------------------------------------------------------------------------
(* Supervision alone: the children after the first tick, and their events *)

\* the ClientState of a client after its first assignment at time 1
AssignedState ==
    LET first == selectFreshestProxy(Pool, NoLoc, EmptyClientState.proxy_usage_dates,
                                     NoLoc)
    IN  updateClientProxy(EmptyClientState, first.url, first.location, NoUrl, NoLoc, 1)

AssignedDoc == [n \in AllNames |-> IF n \in ClientNames THEN AssignedState ELSE NoState]

\* the children started by the first tick, one per client in configuration order
AssignedProcs ==
    [i \in 1..Len(Clients) |->
        [client |-> Clients[i], proxyUrl |-> AssignedState.current_proxy,
         restartAttempts |-> 0, status |-> "running", restartTimer |-> FALSE,
         restarts |-> 0, killed |-> FALSE, graceTimer |-> FALSE]]

AssignedMap ==
    [n \in AllNames |->
        IF n \in ClientNames THEN CHOOSE i \in 1..Len(Clients) : Clients[i] = n
        ELSE NoPid]

\* the program after its first tick has assigned a proxy to every client
AfterFirstTick ==
    /\ cachedState = AssignedDoc
    /\ disk = AssignedDoc
    /\ now = 1
    /\ procs = AssignedProcs
    /\ activeTunnels = AssignedMap
    /\ loop = "idle"
    /\ task = [t \in Tasks |-> IdleFrame]
    /\ tick = [i |-> Len(Clients) + 1, seen |-> ClientNames, end |-> "ok"]
    /\ resp = NoResponse
    /\ net = [n \in AllNames |->
                 IF n \in ClientNames THEN setupClientTunnel(CleanPath, SetupCommands)
                 ELSE CleanPath]

SupInit ==
    /\ AfterFirstTick
    /\ events = 0
    /\ selIn = [pool |-> Pool, lastLocation |-> NoLoc,
                usage |-> [u \in Urls |-> NoDate], preferredLocation |-> NoLoc]
    /\ selOut = [done |-> TRUE, proxy |-> NoProxy]
    /\ derived = NoDerived

\* a child that exits non-cleanly every time it is started, up to MaxCrashes
\* times in one generation
AlwaysCrashes(p) ==
    /\ loop = "idle"
    /\ procs[p].status = "running"
    /\ procs[p].restarts < MaxCrashes
    /\ handleTunnelFailure(p)
    /\ UNCHANGED events

SupNext ==
    \/ \E p \in Pids : AlwaysCrashes(p)
    \/ \E p \in Pids : ProcExitZero(p)
    \/ \E p \in Pids : RestartTimerFire(p)

SupSpec == SupInit /\ [][SupNext]_vars

-----------------------------------------------------------------------------
(* Path setup alone: setupClientTunnel applied again and again on a clean host *)

SetupApply(name, upTo) ==
    /\ net[name].setups < MaxSetups
    /\ net' = [net EXCEPT ![name] =
                  [setupClientTunnel(@, upTo) EXCEPT
                      !.setups = IF SetupReturns(upTo) THEN @ + 1 ELSE @]]
    /\ UNCHANGED << cachedState, disk, now, procs, activeTunnels, loop, task, tick,
                    resp, events, selVars >>

NetNext == \E name \in ClientNames, upTo \in 0..SetupCommands : SetupApply(name, upTo)

NetSpec == Init /\ [][NetNext]_vars

-----------------------------------------------------------------------------
(* Shutdown: the paths after the first tick, set up again by later swaps with
   any command failing, then SIGTERM or SIGINT to the program *)

\* the first loop of cleanupAllTunnels: stopClientTunnel for every registered
\* client; r is [procs, map]
RECURSIVE StopRegistered(_, _)
StopRegistered(r, names) ==
    IF names = {} THEN r
    ELSE LET name == CHOOSE n \in names : TRUE
         IN  StopRegistered([procs |-> stopClientTunnelProcs(r.procs, r.map, name),
                             map |-> stopClientTunnelMap(r.map, name)],
                            names \ {name})

\* the SIGTERM and SIGINT handlers of main: cleanupAllTunnels, process.exit(0)
Shutdown(failingName, failing) ==
    /\ loop = "idle"
    /\ LET stopped == StopRegistered([procs |-> procs, map |-> activeTunnels],
                                     { n \in AllNames : activeTunnels[n] # NoPid })
       IN  /\ procs' = stopped.procs
           /\ activeTunnels' = stopped.map
    /\ net' = cleanupPaths(net, 1, failingName, failing)
    /\ loop' = "down"
    /\ UNCHANGED << cachedState, disk, now, task, tick, resp, events, selVars >>

DownInit == SupInit

DownNext ==
    \/ \E name \in ClientNames, upTo \in 0..SetupCommands :
          loop = "idle" /\ SetupApply(name, upTo)
    \/ \E failingName \in ClientNames,
          failing \in SUBSET { CleanupCommands[k] : k \in 1..Len(CleanupCommands) } :
          Shutdown(failingName, failing)

DownSpec == DownInit /\ [][DownNext]_vars

-----------------------------------------------------------------------------
(* config.ts getRotationIntervalMs and proxy.ts startRotationScheduler: the
   check interval. Intervals are whole numbers, so every rotation interval is a
   multiple of 1000 ms and the division by 10 is exact. *)

SECOND_MS == 1000

MINUTE_MS == 60 * 1000

HOUR_MS == 60 * 60 * 1000

DAY_MS == 24 * 60 * 60 * 1000

\* config.rotation is optional
NoRotation == [interval |-> 0, interval_type |-> "none"]

\* the enum of RotationConfigSchema
IntervalTypes == {"seconds", "second", "minutes", "minute", "hours", "hour",
                  "days", "day"}

getRotationIntervalMs(rotationConfig) ==
    IF rotationConfig = NoRotation THEN 7 * DAY_MS
    ELSE IF rotationConfig.interval_type \in {"seconds", "second"}
         THEN rotationConfig.interval * SECOND_MS
    ELSE IF rotationConfig.interval_type \in {"minutes", "minute"}
         THEN rotationConfig.interval * MINUTE_MS
    ELSE IF rotationConfig.interval_type \in {"hours", "hour"}
         THEN rotationConfig.interval * HOUR_MS
    ELSE IF rotationConfig.interval_type \in {"days", "day"}
         THEN rotationConfig.interval * DAY_MS
    ELSE 7 * DAY_MS

Min(a, b) == IF a <= b THEN a ELSE b

Max(a, b) == IF a >= b THEN a ELSE b

\* a plausible slip: the lower limit of one minute is left out
checkIntervalMsNoFloor(rotationIntervalMs) == Min(HOUR_MS, rotationIntervalMs \div 10)

\* Math.min(60 * 60 * 1000, Math.max(60000, rotationIntervalMs / 10))
checkIntervalMs(rotationIntervalMs) ==
    Min(HOUR_MS, Max(MINUTE_MS, rotationIntervalMs \div 10))

\* the largest interval of a type whose length in ms is below 2^31, the
\* limit of the model checker's integers (JavaScript numbers are exact up to
\* 2^53; every interval above 10 hours gets the same check interval)
LargestInterval(interval_type) ==
    IF interval_type \in {"days", "day"} THEN 24
    ELSE IF interval_type \in {"hours", "hour"} THEN 596
    ELSE MaxInterval

\* main has loaded the configuration and calls startRotationScheduler next,
\* on a first run: nothing is assigned and no tick has run
BeforeScheduler ==
    /\ cachedState = NoDoc
    /\ disk = NoDoc
    /\ now = 1
    /\ procs = << >>
    /\ activeTunnels = [n \in AllNames |-> NoPid]
    /\ loop = "main"
    /\ task = [t \in Tasks |-> IdleFrame]
    /\ tick = [i |-> 0, seen |-> {}, end |-> "none"]
    /\ resp = NoResponse
    /\ net = [n \in AllNames |-> CleanPath]
    /\ events = 0

TickInit ==
    /\ BeforeScheduler
    /\ selIn = [pool |-> Pool, lastLocation |-> NoLoc,
                usage |-> [u \in Urls |-> NoDate], preferredLocation |-> NoLoc]
    /\ selOut = [done |-> TRUE, proxy |-> NoProxy]
    /\ \E rotation \in {NoRotation} \cup
                        { r \in [interval : 1..MaxInterval,
                                 interval_type : IntervalTypes] :
                              r.interval <= LargestInterval(r.interval_type) } :
          derived = [done |-> FALSE, rotation |-> rotation, checkIntervalMs |-> 0]

\* startRotationScheduler: setInterval with the check interval, then the
\* initial check, which runs up to its first await inside the call
startRotationScheduler ==
    /\ loop = "main"
    /\ ~derived.done
    /\ derived' = [derived EXCEPT
                      !.done = TRUE,
                      !.checkIntervalMs =
                          checkIntervalMs(getRotationIntervalMs(derived.rotation))]
    /\ loop' = "sched"
    /\ task' = [task EXCEPT !["sched"] = [IdleFrame EXCEPT !.pc = "eval"]]
    /\ tick' = [i |-> 1, seen |-> {}, end |-> "running"]
    /\ UNCHANGED << cachedState, disk, now, procs, activeTunnels, resp, net,
                    events, selIn, selOut >>

TickNext == startRotationScheduler

TickSpec == TickInit /\ [][TickNext]_vars

-----------------------------------------------------------------------------
(* Path identifiers alone: two clients of one configuration, which has unique
   names (config.ts), at two different indexes *)

DeriveInit ==
    /\ SysInit
    /\ selIn = [pool |-> Pool, lastLocation |-> NoLoc,
                usage |-> [u \in Urls |-> NoDate], preferredLocation |-> NoLoc]
    /\ selOut = [done |-> TRUE, proxy |-> NoProxy]
    /\ \E n1, n2 \in ClientNames, i, j \in 0..MaxIndex :
          /\ n1 # n2
          /\ i < j
          /\ derived = [NoDerived EXCEPT !.names = << n1, n2 >>,
                                         !.indexes = << i, j >>]

DeriveApply ==
    /\ ~derived.done
    /\ derived' = [derived EXCEPT
                      !.done = TRUE,
                      !.ids = [k \in 1..2 |->
                                  PathIds(derived.names[k], derived.indexes[k])]]
    /\ UNCHANGED << sysVars, selIn, selOut >>

DeriveNext == DeriveApply

DeriveSpec == DeriveInit /\ [][DeriveNext]_vars

-----------------------------------------------------------------------------
(* The state store alone: one client rotated again and again, every request
   asking for the same location, one clock unit apart *)

HistClient == Clients[1]

HistInit ==
    /\ AfterFirstTick
    /\ events = 0
    /\ selIn \in [pool : {Pool}, lastLocation : {NoLoc},
                  usage : {[u \in Urls |-> NoDate]},
                  preferredLocation : AskedLocations]
    /\ selOut = [done |-> TRUE, proxy |-> NoProxy]
    /\ derived = NoDerived

\* selectFreshestProxy and updateClientProxy of one rotation that commits
HistRotate ==
    /\ events < MaxRotations
    /\ LET cs == cachedState[HistClient]
           selectedProxy ==
               selectFreshestProxy(Pool, cs.last_location, cs.proxy_usage_dates,
                                   selIn.preferredLocation)
           updated == [cachedState EXCEPT ![HistClient] =
                          updateClientProxy(cs, selectedProxy.url,
                                            selectedProxy.location,
                                            cs.current_proxy, cs.current_location,
                                            now + 1)]
       IN  /\ selectedProxy # NoProxy
           /\ cachedState' = updated
           /\ disk' = saveState(updated, disk, TRUE)
    /\ now' = now + 1
    /\ events' = events + 1
    /\ UNCHANGED << procs, activeTunnels, loop, task, tick, resp, net, selVars >>

HistNext == HistRotate

HistSpec == HistInit /\ [][HistNext]_vars

-----------------------------------------------------------------------------
(* Claims about rotation and supervision *)

\* a call that has done its first step and has not finished the tunnel swap
Mid(t) ==
    \/ task[t].kind = "rotate" /\ task[t].pc \in {"select", "commit", "swap"}
    \/ task[t].kind = "assign" /\ task[t].pc \in {"commit", "swap"}

InFlight(name) == \E t \in Tasks : task[t].pc # "idle" /\ task[t].client = name

Live(p) == procs[p].status = "running"

LiveOf(name) == { p \in Pids : procs[p].client = name /\ Live(p) }

\* C1: two calls on one client are never both between their read-current step
\* and the end of their tunnel swap: the later call runs its steps only after
\* the earlier one has finished its own.
C1_RotationsExclusive ==
    \A t1, t2 \in Tasks :
        (t1 # t2 /\ task[t1].client = task[t2].client) => ~(Mid(t1) /\ Mid(t2))

\* C1 witness: a manual rotation runs its steps while the scheduler's rotation
\* of the same client has not returned yet (it awaits the notifier)
C1_Witness ==
    /\ task["sched"].pc = "notify"
    /\ task["man"].client = task["sched"].client
    /\ task["man"].pc = "swap"

\* C2: every client has at most one live bridging process.
C2_OneLiveProcess ==
    \A name \in ClientNames : Cardinality(LiveOf(name)) <= 1

\* C3: within one generation at most MAX_RESTART_ATTEMPTS automatic restarts
\* are made.
C3_RestartBound ==
    \A p \in Pids : procs[p].restarts <= MAX_RESTART_ATTEMPTS

\* C4: when no rotation is in flight for a client, every live process of the
\* client is connected through the client's current_proxy.
C4_LiveProcessUsesCurrentRelay ==
    \A name \in ClientNames :
        ~InFlight(name) =>
            \A p \in LiveOf(name) :
                /\ cachedState[name] # NoState
                /\ procs[p].proxyUrl = cachedState[name].current_proxy

\* a rotate call whose selection returns none: a preferred location is given
\* and no relay of the pool has it
SelectsNone(t) ==
    /\ task[t].kind = "rotate"
    /\ task[t].preferredLocation # NoLoc
    /\ ~\E i \in 1..Len(Pool) : Pool[i].location = task[t].preferredLocation

\* C5: no step of a rotate call whose selection returns none changes the state
\* document, the file, the processes or the registry.
C5_RotationAtomicity ==
    [][\A t \in Tasks :
          (loop = t /\ SelectsNone(t)) =>
              /\ cachedState' = cachedState
              /\ disk' = disk
              /\ procs' = procs
              /\ activeTunnels' = activeTunnels]_vars

\* C6: a rotate request for a client of the configuration, with a preferred
\* location no relay has, is not answered as a success and leaves the state
\* document as the call found it.
C6_NoRelayAvailableOutcome ==
    (/\ resp.kind \notin {"none", "notfound"}
     /\ resp.preferredLocation # NoLoc
     /\ ~\E i \in 1..Len(Pool) : Pool[i].location = resp.preferredLocation)
        => (resp.kind # "success" /\ ~resp.changed)

\* C7: a tick that has ended, normally or by an error, has evaluated every
\* client of the configuration.
C7_TickEvaluatesAllClients ==
    tick.end \in {"ok", "error"} => tick.seen = ClientNames

\* C8: the commit step of a rotation is always followed by the tunnel swap and
\* leaves the new assignment in the in-memory document, whether or not the
\* file was written.
C8_PersistFailureNonFatal ==
    [][\A t \in Tasks :
          (Running(t, "commit") /\ task[t].kind = "rotate") =>
              /\ task'[t].pc = "swap"
              /\ cachedState'[task[t].client].current_proxy
                     = task[t].selectedProxy.url]_vars

\* the client of chain t has a proxy assigned
Assigned(name) == ~Unassigned(name)

\* C12: a rotation made without a preferred location, for a client that has a
\* proxy, assigns a location different from the one the client held just
\* before it (the pool has two locations).
C12_RotationChangesLocation ==
    [][\A t \in Tasks :
          (/\ Running(t, "commit")
           /\ task[t].kind = "rotate"
           /\ task[t].preferredLocation = NoLoc
           /\ Assigned(task[t].client)) =>
              cachedState'[task[t].client].current_location
                  # cachedState[task[t].client].current_location]_vars

\* C12 witness: a rotation without preferred location has committed a relay of
\* another location than the client held
C12_Witness ==
    \E t \in Tasks :
        /\ task[t].pc = "swap"
        /\ task[t].kind = "rotate"
        /\ task[t].preferredLocation = NoLoc
        /\ task[t].oldLocation # NoLoc
        /\ cachedState[task[t].client].current_location # task[t].oldLocation

\* C20: a commit that moves a client from location X to another location Y
\* leaves last_location = X.
C20_LastLocationIsVacated ==
    [][\A t \in Tasks :
          (/\ Running(t, "commit")
           /\ Assigned(task[t].client)
           /\ task[t].selectedProxy.location
                  # cachedState[task[t].client].current_location) =>
              cachedState'[task[t].client].last_location
                  = cachedState[task[t].client].current_location]_vars

-----------------------------------------------------------------------------
(* selectFreshestProxy on arbitrary small inputs *)

Relays == [url : Urls, location : Locations]

\* every pool of 1..MaxPool relays (config.proxies has at least one)
Pools == UNION { [1..n -> Relays] : n \in 1..MaxPool }

UsageMaps == [Urls -> {NoDate} \cup (1..MaxDate)]

SelInit ==
    /\ SysInit
    /\ selIn \in [pool : Pools, lastLocation : {NoLoc} \cup Locations,
                  usage : UsageMaps, preferredLocation : AskedLocations]
    /\ selOut = [done |-> FALSE, proxy |-> NoProxy]
    /\ derived = NoDerived

SelectApply ==
    /\ ~selOut.done
    /\ selOut' = [done |-> TRUE,
                  proxy |-> selectFreshestProxy(selIn.pool, selIn.lastLocation,
                                                selIn.usage, selIn.preferredLocation)]
    /\ UNCHANGED << selIn, derived >>

SelNext == SelectApply /\ UNCHANGED sysVars

SelSpec == SelInit /\ [][SelNext]_vars

-----------------------------------------------------------------------------
(* Claims about selection *)

InPool(r, pool) == \E i \in 1..Len(pool) : pool[i] = r

HasLocation(pool, loc) == \E i \in 1..Len(pool) : pool[i].location = loc

\* C9: with a preferred location loc, the result is a relay of the pool whose
\* location is loc when the pool has one (also when loc is the last location,
\* so the anti-repeat filter is not applied), and none when the pool has none.
C9_PreferredLocationExact ==
    (selOut.done /\ selIn.preferredLocation # NoLoc) =>
        IF HasLocation(selIn.pool, selIn.preferredLocation)
        THEN /\ InPool(selOut.proxy, selIn.pool)
             /\ selOut.proxy.location = selIn.preferredLocation
        ELSE selOut.proxy = NoProxy

\* C9 witness: both cases happened: a match on the last location, and no match
C9_Witness ==
    /\ selOut.done
    /\ selIn.preferredLocation = "EU"
    /\ selIn.lastLocation = "EU"
    /\ HasLocation(selIn.pool, "US")
    /\ selOut.proxy.location = "EU"

\* the rank of a candidate: no usage date is below every usage date
DateRank(usage, r) == IF usage[r.url] = NoDate THEN -1 ELSE usage[r.url]

\* C10: the result is the candidate of smallest usage date, a relay without
\* usage date counting as older than every used one, and among the candidates
\* of that date the first in pool order.
C10_FreshestFirstListed ==
    selOut.done =>
        LET avail == AvailableProxies(selIn.pool, selIn.lastLocation,
                                      selIn.preferredLocation)
            Rank(i) == DateRank(selIn.usage, avail[i])
            Least == { i \in 1..Len(avail) :
                         \A j \in 1..Len(avail) : Rank(i) <= Rank(j) }
        IN  Len(avail) > 0 =>
                \E i \in Least : /\ \A j \in Least : i <= j
                                 /\ selOut.proxy = avail[i]

\* C10 witness: a never-used relay listed after a used one is returned, with a
\* second never-used relay listed after it
C10_Witness ==
    /\ selOut.done
    /\ selIn.preferredLocation = NoLoc
    /\ selIn.lastLocation = NoLoc
    /\ Len(selIn.pool) = 3
    /\ selIn.usage[selIn.pool[1].url] # NoDate
    /\ selIn.usage[selIn.pool[2].url] = NoDate
    /\ selIn.usage[selIn.pool[3].url] = NoDate
    /\ selIn.pool[2] # selIn.pool[3]
    /\ selOut.proxy = selIn.pool[2]

\* C11: without a preferred location and with last location L, the result is
\* not located in L when the pool has a relay located elsewhere, and is a relay
\* of the pool located in L when every relay of the pool is.
C11_AntiRepeat ==
    (selOut.done /\ selIn.preferredLocation = NoLoc /\ selIn.lastLocation # NoLoc) =>
        /\ InPool(selOut.proxy, selIn.pool)
        /\ IF \E i \in 1..Len(selIn.pool) :
                 selIn.pool[i].location # selIn.lastLocation
           THEN selOut.proxy.location # selIn.lastLocation
           ELSE selOut.proxy.location = selIn.lastLocation

\* C11 witness: the first relay listed is never used and located in the last
\* location, a used relay located elsewhere is returned
C11_Witness ==
    /\ selOut.done
    /\ selIn.preferredLocation = NoLoc
    /\ selIn.lastLocation = "US"
    /\ Len(selIn.pool) >= 2
    /\ selIn.pool[1].location = "US"
    /\ selIn.usage[selIn.pool[1].url] = NoDate
    /\ selOut.proxy.location = "EU"
    /\ selIn.usage[selOut.proxy.url] # NoDate

-----------------------------------------------------------------------------
(* Claims about the network path *)

\* C19: on a host that was clean, when setupClientTunnel has returned for the
\* second time (or a later time) for a client, the client has exactly one
\* policy-routing rule, one forwarding rule in each direction and one NAT rule.
C19_SetupIdempotent ==
    \A name \in ClientNames :
        (net[name].setups >= 2 /\ net[name].ready) =>
            /\ net[name].rule = 1
            /\ net[name].fwdIn = 1
            /\ net[name].fwdOut = 1
            /\ net[name].nat = 1

\* C19 witness: the setup has returned twice for a client
C19_Witness ==
    \E name \in ClientNames :
        /\ net[name].setups = 2
        /\ net[name].ready
        /\ net[name].rule = 1
        /\ net[name].nat = 1

-----------------------------------------------------------------------------
(* Claims about unknown clients *)

\* C18: a name outside the configured client list never gets a ClientState,
\* and a rotate request for it is answered with NotFound.
C18_UnknownClientNotFound ==
    \A name \in AllNames \ ClientNames :
        /\ cachedState[name] = NoState
        /\ (resp.kind # "none" /\ resp.client = name) => resp.kind = "notfound"

-----------------------------------------------------------------------------
(* Claims about the rotation history *)

History(name) == cachedState[name].rotation_history

\* C13: once more than 100 rotations were performed for the client (one per
\* clock unit), its history has exactly 100 entries, the 100 most recent
\* rotations in order.
C13_HistoryOfLastHundred ==
    events > HistoryCap =>
        /\ Len(History(HistClient)) = HistoryCap
        /\ \A i \in 1..HistoryCap :
               History(HistClient)[i].timestamp = now - HistoryCap + i

\* C14: the history never has more than 100 entries, and a step that moves a
\* client from one proxy to another (or changes the history at all) appends
\* one entry at the end, dropping the oldest one when there were 100 already
\* and keeping the others in order.
C14_HistoryCapEvictsOldest ==
    [][\A name \in ClientNames :
          (cachedState[name] # NoState /\ cachedState'[name] # NoState) =>
              LET h == History(name)
                  g == cachedState'[name].rotation_history
                  moved == /\ cachedState[name].current_proxy # NoUrl
                           /\ cachedState'[name].current_proxy
                                  # cachedState[name].current_proxy
              IN  /\ Len(g) <= HistoryCap
                  /\ (moved \/ g # h) =>
                        /\ Len(g) > 0
                        /\ g[Len(g)].timestamp = now'
                        /\ SubSeq(g, 1, Len(g) - 1)
                               = IF Len(h) < HistoryCap THEN h ELSE Tail(h)]_vars

\* C14 witness: 100 entries are kept and the oldest rotations are gone
C14_Witness ==
    /\ events > HistoryCap
    /\ Len(History(HistClient)) = HistoryCap
    /\ History(HistClient)[1].timestamp > 2

-----------------------------------------------------------------------------
(* Claims about the scheduler tick and the notifier *)

\* C15: when a tick ends, no client of the configuration that has a current
\* proxy and whose interval has elapsed was left without an automatic rotation
\* by that tick.
C15_TickRotatesDueClients ==
    [][(tick.end = "running" /\ tick'.end # "running") =>
          \A name \in ClientNames \ tick'.seen :
              ~(Assigned(name) /\ Due(name))]_vars

\* C16: the first-time assignment a tick makes for a client without current
\* proxy never invokes the notifier, and when it ends the client has the
\* selected proxy as current proxy, a live registered process connected through
\* it, and an empty rotation history.
C16_FirstTimeAssignment ==
    task["sched"].kind = "assign" =>
        /\ task["sched"].pc # "notify"
        /\ task["sched"].pc \in {"ret", "threw"} =>
              LET name == task["sched"].client
              IN  /\ cachedState[name] # NoState
                  /\ cachedState[name].current_proxy = task["sched"].selectedProxy.url
                  /\ cachedState[name].rotation_history = << >>
                  /\ activeTunnels[name] # NoPid
                  /\ LiveOf(name) = {activeTunnels[name]}
                  /\ procs[activeTunnels[name]].proxyUrl
                         = cachedState[name].current_proxy

\* a rotation that is automatic and found a proxy assigned
AutomaticWithPrior(t) ==
    task[t].kind = "rotate" /\ task[t].isAutomatic /\ task[t].oldProxy # NoUrl

\* C17: the notifier is invoked only by the tunnel swap of an automatic
\* rotation that found a proxy assigned, and every automatic rotation that
\* found a proxy assigned and commits a new one goes on to invoke it.
C17_NotifierExactlyForAutomatic ==
    [][\A t \in Tasks :
          /\ (task[t].pc # "notify" /\ task'[t].pc = "notify") =>
                 (AutomaticWithPrior(t) /\ task[t].pc = "swap")
          /\ (AutomaticWithPrior(t) /\ (Running(t, "commit") \/ Running(t, "swap"))) =>
                 task'[t].pc \in {"swap", "notify"}]_vars

-----------------------------------------------------------------------------
(* Claims about stopping and restarting the bridging process *)

\* C21: when the tunnel swap of a rotation or assignment has run
\* stopClientTunnel for a client, no restart timer of a crashed process of that
\* client is left pending.
C21_StopCancelsRestartTimer ==
    [][\A t \in Tasks :
          (Running(t, "swap") /\ task'[t].pc # "swap") =>
              \A p \in Pids :
                  procs'[p].client = task[t].client => ~procs'[p].restartTimer]_vars

\* C22: when the grace timer of a stopped process fires and the process has
\* not exited, the process is force-terminated.
C22_ForceTerminatedAfterGrace ==
    [][\A p \in Pids :
          (/\ procs[p].graceTimer
           /\ ~procs'[p].graceTimer
           /\ procs[p].status = "terminating"
           /\ procs'[p].status # "exited") => procs'[p].status = "killing"]_vars

\* C23: when a running process that no stop has signalled exits, and its
\* restart counter is below MAX_RESTART_ATTEMPTS, a restart is scheduled.
C23_UnexpectedExitRestarts ==
    [][\A p \in Pids :
          (/\ procs[p].status = "running"
           /\ procs'[p].status = "exited"
           /\ procs[p].restartAttempts < MAX_RESTART_ATTEMPTS) =>
              procs'[p].restartTimer]_vars

\* C24: the process that a tunnel swap (explicit start or rotation restart)
\* starts has restart counter 0 and is the registered process of its client.
C24_ExplicitStartResetsCounter ==
    [][\A t \in Tasks :
          (Running(t, "swap") /\ Len(procs') > Len(procs)) =>
              /\ procs'[Len(procs')].client = task[t].client
              /\ procs'[Len(procs')].restartAttempts = 0
              /\ activeTunnels'[task[t].client] = Len(procs')]_vars

\* C24 witness: a rotation has replaced a process that a crash restart had
\* started (counter 1); the replacement is registered with counter 0
C24_Witness ==
    \E p, q \in Pids :
        /\ p < q
        /\ procs[p].client = procs[q].client
        /\ procs[p].status = "terminating"
        /\ procs[p].restartAttempts = 1
        /\ procs[q].status = "running"
        /\ procs[q].restartAttempts = 0
        /\ activeTunnels[procs[q].client] = q

\* C25: when a tunnel swap starts the replacement process of a client, every
\* earlier process of that client has exited.
C25_StopReleasesBeforeStart ==
    [][\A t \in Tasks :
          (Running(t, "swap") /\ Len(procs') > Len(procs)) =>
              \A p \in Pids :
                  procs'[p].client = task[t].client => procs'[p].status = "exited"]_vars

\* C26: every step that starts a process for a client is a step of a call
\* that has run setupClientTunnel for that client (the tunnel swap), and it
\* leaves the client's path as a complete run of the setup leaves it.
C26_SetupBeforeEveryStart ==
    [][Len(procs') > Len(procs) =>
          LET name == procs'[Len(procs')].client
          IN  /\ \E t \in Tasks : Running(t, "swap") /\ task[t].client = name
              /\ net'[name] = setupClientTunnel(net[name], SetupCommands)]_vars

-----------------------------------------------------------------------------
(* Claims about the identifiers of a client's path *)

\* C27: two clients at different indexes of one configuration get different
\* interface names, TUN networks and addresses, routing tables and rule
\* priorities.
C27_PathIdsDistinct ==
    derived.done =>
        LET a == derived.ids[1]
            b == derived.ids[2]
        IN  /\ a.tunInterface # b.tunInterface
            /\ a.routeTable # b.routeTable
            /\ a.prio # b.prio
            /\ a.tunIP # b.tunIP
            /\ a.peerGW # b.peerGW
            /\ Network24(a.tunSubnet.ip) # Network24(b.tunSubnet.ip)

-----------------------------------------------------------------------------
(* Claims about the notifier and about failures of the path commands *)

\* C28: no rotation call, and with it no scheduler tick, is suspended until
\* the notifier it invoked has completed.
C28_NotifierNeverBlocks ==
    \A t \in Tasks : ~(task[t].pc = "notify" /\ loop # t)

\* C29: the tunnel swap of a rotation of a configured client whose interface
\* exists already starts the replacement process, whether or not a path
\* command fails.
C29_SetupFailureContinues ==
    [][\A t \in Tasks :
          (/\ Running(t, "swap")
           /\ task[t].kind = "rotate"
           /\ task[t].oldProxy # NoUrl
           /\ Configured(task[t].client)
           /\ net[task[t].client].tun) =>
              /\ Len(procs') > Len(procs)
              /\ procs'[Len(procs')].client = task[t].client
              /\ procs'[Len(procs')].proxyUrl = task[t].selectedProxy.url]_vars

-----------------------------------------------------------------------------
(* Claims about the shutdown *)

\* C30: the shutdown attempts, for every configured client, the removal of
\* every part of the client's path that exists: the routing rule, the two
\* forwarding rules, the NAT rule and the interface.
C30_TeardownCoversEveryClient ==
    [][(loop # "down" /\ loop' = "down") =>
          \A name \in ClientNames :
              \A k \in 1..Len(CleanupCommands) :
                  Present(net[name], CleanupCommands[k]) =>
                      CleanupCommands[k] \in net'[name].cleaned.attempted]_vars

-----------------------------------------------------------------------------
(* Claims about the effects of one client's events on the other clients *)

\* the state of the clients other than name is left as it was: their registry
\* entries, their children, every ClientState, and the scheduler's tick
OthersUntouched(name) ==
    /\ \A other \in AllNames \ {name} : activeTunnels'[other] = activeTunnels[other]
    /\ \A q \in Pids : procs[q].client # name => procs'[q] = procs[q]
    /\ \A q \in (Len(procs) + 1)..Len(procs') : procs'[q].client = name
    /\ cachedState' = cachedState
    /\ disk' = disk
    /\ tick' = tick
    /\ task' = task

\* C31: the unexpected exit of a running process, and the restart its timer
\* makes later, leave the other clients' registry entries and processes, every
\* ClientState and the scheduler's tick and calls as they were.
C31_CrashTouchesOneClient ==
    [][\A p \in Pids :
          /\ (procs[p].status = "running" /\ procs'[p].status = "exited") =>
                 OthersUntouched(procs[p].client)
          /\ (procs[p].restartTimer /\ ~procs'[p].restartTimer) =>
                 OthersUntouched(procs[p].client)]_vars

\* C31 witness: the process of the first client has crashed and waits for its
\* restart while the second client's process runs, registered
C31_Witness ==
    \E p, q \in Pids :
        /\ procs[p].client = Clients[1]
        /\ procs[p].restartTimer
        /\ procs[q].client = Clients[2]
        /\ procs[q].status = "running"
        /\ activeTunnels[Clients[2]] = q

-----------------------------------------------------------------------------
(* Claims about the scheduler's start *)

-----------------------------------------------------------------------------
(* state.ts: loadState, studied alone over the files a start-up can find *)

\* the client states a run leaves in the file: none, the initialized one, a
\* first assignment, and a rotation after a first assignment
FirstAssigned(r, t) ==
    updateClientProxy(EmptyClientState, r.url, r.location, NoUrl, NoLoc, t)

Rotated(r1, r2, t1, t2) ==
    updateClientProxy(FirstAssigned(r1, t1), r2.url, r2.location,
                      r1.url, r1.location, t2)

PersistedClientStates ==
    {NoState, EmptyClientState}
        \cup { FirstAssigned(Pool[i], t) : i \in 1..Len(Pool), t \in 1..MaxDate }
        \cup { Rotated(Pool[i], Pool[j], 1, t) :
                   i \in 1..Len(Pool), j \in 1..Len(Pool), t \in 2..MaxDate }

PersistedDocs ==
    { [n \in AllNames |-> IF n = Clients[1] THEN s1
                          ELSE IF n = Clients[2] THEN s2
                          ELSE NoState] :
          s1 \in PersistedClientStates, s2 \in PersistedClientStates }

\* what the start-up finds at the state path: no file, a file that cannot be
\* read, text that is not JSON, JSON that has no clients object, a document
FileKinds == {"missing", "unreadable", "corrupt", "notAState", "document"}

\* the value of JSON.parse for JSON without a clients object, such as {}:
\* no client can be looked up in it
NotAState == << >>

IsDocument(doc) == DOMAIN doc = AllNames

\* loadState with cachedState still null: the value it caches and returns
loadState(file, stored) ==
    IF file = "missing" THEN NoDoc
    ELSE IF file \in {"unreadable", "corrupt"} THEN NoDoc
    ELSE IF file = "notAState" THEN NotAState
    ELSE stored

\* the file after loadState: the empty document when it initialized one and
\* the write went through, else the file as it was
loadStateFile(file) ==
    [kind |-> IF file \in {"missing", "unreadable", "corrupt"}
              THEN "document" ELSE file,
     rewritten |-> file \in {"missing", "unreadable", "corrupt"}]

LoadInit ==
    /\ BeforeScheduler
    /\ selIn = [pool |-> Pool, lastLocation |-> NoLoc,
                usage |-> [u \in Urls |-> NoDate], preferredLocation |-> NoLoc]
    /\ selOut = [done |-> TRUE, proxy |-> NoProxy]
    /\ \E file \in FileKinds, stored \in PersistedDocs :
          /\ file # "document" => stored = NoDoc
          /\ derived = [done |-> FALSE, file |-> file, stored |-> stored,
                        rewritten |-> FALSE]

\* the first call of loadState of the process; ok tells whether the write of
\* the empty document went through, whose failure is ignored
LoadApply ==
    /\ ~derived.done
    /\ \E ok \in BOOLEAN :
          LET after == loadStateFile(derived.file)
          IN  /\ cachedState' = loadState(derived.file, derived.stored)
              /\ derived' = [derived EXCEPT !.done = TRUE,
                                            !.rewritten = after.rewritten /\ ok]
    /\ UNCHANGED << disk, now, procs, activeTunnels, loop, task, tick, resp,
                    net, events, selIn, selOut >>

LoadNext == LoadApply

LoadSpec == LoadInit /\ [][LoadNext]_vars

-----------------------------------------------------------------------------
(* Claims about the state file *)

\* C33: loading the state never fails: a missing, unreadable or corrupt file
\* gives the empty document, and a file holding a document gives that
\* document; whatever the file holds, the value loaded is a document.
C33_LoadNeverFails ==
    derived.done =>
        /\ IsDocument(cachedState)
        /\ derived.file = "document" => cachedState = derived.stored
        /\ derived.file # "document" => cachedState = NoDoc

\* the file holds JSON without a clients object and loadState has returned
\* the parsed value, in which the look-up of a client throws
C33_Counterexample ==
    derived.done /\ derived.file = "notAState" /\ ~IsDocument(cachedState)

\* C34: every mutation of a ClientState is persisted: a step that changes the
\* in-memory document and whose write does not fail leaves the file equal to
\* the in-memory document.
C34_PersistedOnMutation ==
    [][(cachedState' # cachedState /\ events' = events) =>
           disk' = cachedState']_vars

\* C34 witness: a rotation has committed the second relay of a client whose
\* history it extended, and the file holds the in-memory document
C34_Witness ==
    \E t \in Tasks :
        /\ task[t].pc = "swap"
        /\ task[t].oldProxy # NoUrl
        /\ cachedState[task[t].client] # NoState
        /\ cachedState[task[t].client].current_proxy = task[t].selectedProxy.url
        /\ cachedState[task[t].client].rotation_history # << >>
        /\ disk = cachedState

PoolHas(url, location) ==
    \E i \in 1..Len(Pool) : Pool[i].url = url /\ Pool[i].location = location

\* C35: the current relay of every client is unassigned or the URL of a relay
\* of the configured pool, the current location is the location of that
\* relay, and every URL that has a usage date is a URL of the pool.
C35_StateRefersToPool ==
    \A n \in AllNames :
        cachedState[n] # NoState =>
            /\ \/ cachedState[n].current_proxy = NoUrl
               \/ PoolHas(cachedState[n].current_proxy,
                          cachedState[n].current_location)
            /\ \A u \in DOMAIN cachedState[n].proxy_usage_dates :
                   cachedState[n].proxy_usage_dates[u] # NoDate =>
                       \E i \in 1..Len(Pool) : Pool[i].url = u

\* C35 witness: a client is on its second relay and both relays have a date
C35_Witness ==
    \E n \in ClientNames :
        /\ cachedState[n] # NoState
        /\ cachedState[n].rotation_history # << >>
        /\ PoolHas(cachedState[n].current_proxy, cachedState[n].current_location)
        /\ Cardinality({ u \in Urls :
                             cachedState[n].proxy_usage_dates[u] # NoDate }) = 2

-----------------------------------------------------------------------------
(* Claims about the registry across a swap *)

\* C36: when the exit event of a process that was stopped is delivered while
\* the registry maps its client to a running replacement, the registry maps
\* the client to the replacement afterwards too.
C36_ExitKeepsReplacement ==
    [][\A p, q \in Pids :
          (/\ procs[p].status \in {"terminating", "killing"}
           /\ procs'[p].status = "exited"
           /\ q # p
           /\ procs[q].client = procs[p].client
           /\ procs[q].status = "running"
           /\ activeTunnels[procs[p].client] = q)
              => activeTunnels'[procs[p].client] = q]_vars

\* the old process of a client has exited, the replacement started after it
\* runs, and the registry has no entry for the client
C36_Counterexample ==
    \E p, q \in Pids :
        /\ p < q
        /\ procs[p].client = procs[q].client
        /\ procs[p].status = "exited"
        /\ procs[q].status = "running"
        /\ activeTunnels[procs[q].client] = NoPid

-----------------------------------------------------------------------------
(* proxy.ts, state.ts: repeated rotations of one client with one preferred
   location, over the pools whose relays have distinct URLs *)

LruPools ==
    { pool \in Pools :
          \A i, j \in 1..Len(pool) : i # j => pool[i].url # pool[j].url }

\* the usage dates earlier assignments leave: each at its own time
LruUsages ==
    { usage \in [UsageKeys -> {NoDate} \cup (1..MaxDate)] :
          /\ usage[NoUrl] = NoDate
          /\ \A u, v \in Urls :
                 (u # v /\ usage[u] # NoDate) => usage[u] # usage[v] }

\* the relay assigned last according to the usage dates, if any
LastUsed(usage) ==
    IF \A u \in Urls : usage[u] = NoDate THEN NoUrl
    ELSE CHOOSE u \in Urls :
             /\ usage[u] # NoDate
             /\ \A v \in Urls : usage[v] # NoDate => usage[v] <= usage[u]

LocationOf(pool, url) ==
    IF \E i \in 1..Len(pool) : pool[i].url = url
    THEN pool[CHOOSE i \in 1..Len(pool) : pool[i].url = url].location
    ELSE NoLoc

\* the ClientState of a client whose earlier assignments left these dates
LruState(pool, usage) ==
    [EmptyClientState EXCEPT
        !.current_proxy = LastUsed(usage),
        !.current_location = LocationOf(pool, LastUsed(usage)),
        !.last_rotation = IF LastUsed(usage) = NoUrl THEN NoDate
                          ELSE usage[LastUsed(usage)],
        !.proxy_usage_dates = usage]

LruInit ==
    /\ \E pool \in LruPools, usage \in LruUsages, preferredLocation \in Locations :
          /\ selIn = [pool |-> pool, lastLocation |-> NoLoc,
                      usage |-> [u \in Urls |-> usage[u]],
                      preferredLocation |-> preferredLocation]
          /\ cachedState = [NoDoc EXCEPT ![HistClient] = LruState(pool, usage)]
          /\ disk = [NoDoc EXCEPT ![HistClient] = LruState(pool, usage)]
    /\ now = MaxDate
    /\ procs = << >>
    /\ activeTunnels = [n \in AllNames |-> NoPid]
    /\ loop = "idle"
    /\ task = [t \in Tasks |-> IdleFrame]
    /\ tick = [i |-> Len(Clients) + 1, seen |-> ClientNames, end |-> "ok"]
    /\ resp = NoResponse
    /\ net = [n \in AllNames |-> CleanPath]
    /\ events = 0
    /\ selOut = [done |-> TRUE, proxy |-> NoProxy]
    /\ derived = [done |-> FALSE, assigned |-> << >>]

\* selectFreshestProxy and updateClientProxy of one rotation with the
\* preferred location, at a time later than every earlier one
LruRotate ==
    /\ events < MaxLru
    /\ LET cs == cachedState[HistClient]
           selectedProxy ==
               selectFreshestProxy(selIn.pool, cs.last_location,
                                   cs.proxy_usage_dates, selIn.preferredLocation)
           updated == [cachedState EXCEPT ![HistClient] =
                          updateClientProxy(cs, selectedProxy.url,
                                            selectedProxy.location,
                                            cs.current_proxy, cs.current_location,
                                            now + 1)]
       IN  /\ selectedProxy # NoProxy
           /\ cachedState' = updated
           /\ disk' = saveState(updated, disk, TRUE)
           /\ derived' = [derived EXCEPT
                             !.assigned = Append(@, selectedProxy.url)]
    /\ now' = now + 1
    /\ events' = events + 1
    /\ UNCHANGED << procs, activeTunnels, loop, task, tick, resp, net,
                    selIn, selOut >>

LruNext == LruRotate

LruSpec == LruInit /\ [][LruNext]_vars

-----------------------------------------------------------------------------
(* Claims about the order of the relays *)

\* the relays of the pool that have the preferred location
LruRelays == AvailableProxies(selIn.pool, NoLoc, selIn.preferredLocation)

\* C37: with one preferred location that has k relays in the pool, any k
\* consecutive rotations assign k distinct relays: no relay is assigned again
\* before the k - 1 others were.
C37_LeastRecentlyUsed ==
    \A i, j \in 1..Len(derived.assigned) :
        (i < j /\ j - i < Len(LruRelays)) =>
            derived.assigned[i] # derived.assigned[j]

\* C37 witness: the location has three relays, four rotations were made, and
\* the fourth assigned the relay of the first again
C37_Witness ==
    /\ Len(LruRelays) = 3
    /\ Len(derived.assigned) >= 4
    /\ derived.assigned[4] = derived.assigned[1]
    /\ \E u \in Urls : selIn.usage[u] # NoDate

-----------------------------------------------------------------------------
(* index.ts: the start-up of main that assigns a relay to every client before
   it starts the scheduler, over the state files an earlier run leaves *)

\* the position of main: derived.i is the index of the for loop over
\* config.clients, derived.done tells whether loadState has run
BootInit ==
    /\ BeforeScheduler
    /\ selIn = [pool |-> Pool, lastLocation |-> NoLoc,
                usage |-> [u \in Urls |-> NoDate], preferredLocation |-> NoLoc]
    /\ selOut = [done |-> TRUE, proxy |-> NoProxy]
    /\ \E file \in FileKinds, stored \in PersistedDocs :
          /\ file # "document" => stored = NoDoc
          /\ derived = [done |-> FALSE, file |-> file, stored |-> stored, i |-> 1]

\* the start-up happens at the time of the last rotation of the earlier run
\* or later
BootClock ==
    /\ loop = "main"
    /\ ~derived.done
    /\ derived.i = 1
    /\ now < MaxDate + 1
    /\ now' = now + 1
    /\ UNCHANGED << cachedState, disk, procs, activeTunnels, loop, task, tick,
                    resp, net, events, selVars >>

\* the document getClientState works on: the cached one, or the one loadState
\* caches on its first call
BootLoaded ==
    IF derived.done THEN cachedState ELSE loadState(derived.file, derived.stored)

\* one iteration of the for loop: await assignProxyToClient(client.name, config),
\* that is selectFreshestProxy, updateClientProxy without an old relay, and
\* startTun2Socks; an exception leaves the loop for the catch block of main
BootAssign ==
    /\ loop = "main"
    /\ derived.i <= Len(Clients)
    /\ LET name == Clients[derived.i]
           loaded == BootLoaded
       IN  IF ~IsDocument(loaded)
           THEN /\ cachedState' = loaded
                /\ loop' = "threw"
                /\ derived' = [derived EXCEPT !.done = TRUE]
                /\ UNCHANGED << disk, procs, activeTunnels, net, events >>
           ELSE \E initOk \in InitWrites(loaded, name), ok \in Outcomes,
                   upTo \in SetupOutcomes :
                  LET doc == initializeClientState(loaded, name)
                      cs == doc[name]
                      selectedProxy ==
                          selectFreshestProxy(Pool, cs.last_location,
                                              cs.proxy_usage_dates, NoLoc)
                      updated == [doc EXCEPT ![name] =
                                     updateClientProxy(cs, selectedProxy.url,
                                                       selectedProxy.location,
                                                       NoUrl, NoLoc, now)]
                      initDisk == IF doc # loaded THEN saveState(doc, disk, initOk)
                                  ELSE disk
                      setupOk == SetupReturns(upTo)
                      stopped == stopClientTunnelProcs(procs, activeTunnels, name)
                      map == stopClientTunnelMap(activeTunnels, name)
                  IN  /\ cachedState' = updated
                      /\ disk' = saveState(updated, initDisk, ok)
                      /\ ~ok => upTo = SetupCommands
                      /\ procs' = IF ok /\ setupOk
                                  THEN startTun2SocksProcessProcs(stopped, map, name,
                                           selectedProxy.url, FALSE, 0)
                                  ELSE IF ok THEN stopped ELSE procs
                      /\ activeTunnels' = IF ok /\ setupOk
                                          THEN startTun2SocksProcessMap(stopped, map,
                                                                        name)
                                          ELSE IF ok THEN map ELSE activeTunnels
                      /\ net' = IF ok
                                THEN [net EXCEPT ![name] = setupClientTunnel(@, upTo)]
                                ELSE net
                      /\ events' = events + Count(initOk) + Count(ok)
                                       + Count(~ok \/ setupOk)
                      /\ loop' = IF ok /\ setupOk THEN "main" ELSE "threw"
                      /\ derived' = [derived EXCEPT
                                        !.done = TRUE,
                                        !.i = IF ok /\ setupOk THEN @ + 1 ELSE @]
    /\ UNCHANGED << now, task, tick, resp, selIn, selOut >>

\* the catch block of main: cleanupAllTunnels, process.exit(1)
BootAbort ==
    /\ loop = "threw"
    /\ LET stopped == StopRegistered([procs |-> procs, map |-> activeTunnels],
                                     { n \in AllNames : activeTunnels[n] # NoPid })
       IN  /\ procs' = stopped.procs
           /\ activeTunnels' = stopped.map
    /\ net' = cleanupPaths(net, 1, Clients[1], {})
    /\ loop' = "down"
    /\ UNCHANGED << cachedState, disk, now, task, tick, resp, events, selVars >>

\* startRotationScheduler after the loop: the initial check takes the thread
BootScheduler ==
    /\ loop = "main"
    /\ derived.i > Len(Clients)
    /\ loop' = "sched"
    /\ task' = [task EXCEPT !["sched"] = [IdleFrame EXCEPT !.pc = "eval"]]
    /\ tick' = [i |-> 1, seen |-> {}, end |-> "running"]
    /\ UNCHANGED << cachedState, disk, now, procs, activeTunnels, resp, net,
                    events, selVars >>

BootNext ==
    \/ BootClock
    \/ BootAssign
    \/ BootAbort
    \/ BootScheduler

BootSpec == BootInit /\ [][BootNext]_vars

-----------------------------------------------------------------------------
(* Claims about the state across a restart *)

\* the history is an unbroken chain that ends at the current relay
HistoryChained(cs) ==
    LET h == cs.rotation_history
    IN  h # << >> =>
            /\ h[Len(h)].new_proxy = cs.current_proxy
            /\ \A i \in 2..Len(h) : h[i].old_proxy = h[i - 1].new_proxy

\* C38: whenever the rotation history of a client is not empty, the new relay
\* of its last entry is the current relay of the client and the old relay of
\* every entry is the new relay of the entry before it, also in the state a
\* restarted program continues from.
C38_HistoryIsChain ==
    IsDocument(cachedState) =>
        \A n \in ClientNames :
            cachedState[n] # NoState => HistoryChained(cachedState[n])

\* the start-up has given a client with a history a relay that the last entry
\* of the history does not name
C38_Counterexample ==
    /\ derived.done
    /\ IsDocument(cachedState)
    /\ \E n \in ClientNames :
          /\ cachedState[n] # NoState
          /\ derived.stored[n] # NoState
          /\ derived.stored[n].rotation_history # << >>
          /\ HistoryChained(derived.stored[n])
          /\ ~HistoryChained(cachedState[n])

\* a client of the state file that has a relay whose rotation is not due
KeepsRelay(n) ==
    /\ derived.file = "document"
    /\ derived.stored[n] # NoState
    /\ derived.stored[n].current_proxy # NoUrl
    /\ now - derived.stored[n].last_rotation < IntervalMs

\* C39: a client that has a current relay in the persisted state and whose
\* rotation interval has not elapsed has the same ClientState after the
\* start-up has dealt with it as in the persisted state.
C39_StartupKeepsState ==
    \A k \in 1..Len(Clients) :
        (derived.done /\ k < derived.i /\ KeepsRelay(Clients[k])) =>
            cachedState[Clients[k]] = derived.stored[Clients[k]]

\* the start-up has dealt with the first client, whose rotation was not due,
\* and the client has another relay than in the persisted state
C39_Counterexample ==
    /\ derived.done
    /\ derived.i > 1
    /\ KeepsRelay(Clients[1])
    /\ cachedState[Clients[1]].current_proxy
           # derived.stored[Clients[1]].current_proxy

-----------------------------------------------------------------------------
(* Claims about the processes of other clients *)

\* C40: the stop and start of the process of one client, in an assignment or a
\* rotation, leaves the process of every other client as it is, also when the
\* name of the one is a prefix of the name of the other.
C40_StopSparesOtherClients ==
    [][\A t \in Tasks :
          Running(t, "swap") =>
              \A p \in Pids :
                  procs[p].client # task[t].client =>
                      procs'[p].status = procs[p].status]_vars

\* the registered process of the second client, which nobody stopped, is
\* terminating: the pattern of the pkill for the first client matched it
C40_Counterexample ==
    \E p \in Pids :
        /\ procs[p].client = Clients[2]
        /\ activeTunnels[Clients[2]] = p
        /\ procs[p].status = "terminating"
        /\ ~procs[p].killed

====
